---- MODULE Spec2Model ----
(***************************************************************************)
(* Model of the devcontainer template version bumper                       *)
(* (scripts/bump_version.py) and of the publish workflow                   *)
(* (scripts/publish_templates.py).                                         *)
(*                                                                         *)
(* Strings that the code parses or formats (version strings) are           *)
(* sequences of one-character strings.  A file is a record describing its  *)
(* bytes: whether they are syntactically JSON, how they are laid out, and  *)
(* the JSON value they denote.                                             *)
(*                                                                         *)
(* The environment may fail where the code touches the temporary file      *)
(* (open, write, re-read, rename) and where it starts a subprocess.        *)
(* Writes to standard output and standard error (the progress and error    *)
(* messages) are taken to succeed and are not part of the state.           *)
(***************************************************************************)
EXTENDS Integers, Sequences, FiniteSets, TLC

(* ------------------------------ bounds --------------------------------- *)

\* Version components of the manifests handed to update_template_version
\* range over 0..MaxNum (10 makes the one-digit to two-digit carry happen).
MaxNum == 10

\* Largest number of manifests below a target directory.
MaxTemplates == 2

(* ------------------------- characters and numbers ---------------------- *)

Digits == <<"0", "1", "2", "3", "4", "5", "6", "7", "8", "9">>

IsDigit(c) == \E d \in 1..10 : Digits[d] = c

DigitVal(c) == (CHOOSE d \in 1..10 : Digits[d] = c) - 1

\* int(s) for a non-empty string of decimal digits (leading zeros allowed).
RECURSIVE IntOf(_)
IntOf(s) ==
    IF Len(s) = 0 THEN 0
    ELSE 10 * IntOf(SubSeq(s, 1, Len(s) - 1)) + DigitVal(s[Len(s)])

\* f"{n}" for a non-negative integer n.
RECURSIVE StrOf(_)
StrOf(n) ==
    IF n < 10 THEN <<Digits[n + 1]>>
    ELSE StrOf(n \div 10) \o <<Digits[(n % 10) + 1]>>

(* ------------------------------ JSON values ---------------------------- *)

\* A JSON scalar: t is "str", "num" or "null".
JStr(s) == [t |-> "str", s |-> s, n |-> 0]
JNum(n) == [t |-> "num", s |-> <<>>, n |-> n]
JNull == [t |-> "null", s |-> <<>>, n |-> 0]

\* Python truthiness of a value read from the manifest.
Truthy(v) ==
    CASE v.t = "str" -> v.s # <<>>
      [] v.t = "num" -> v.n # 0
      [] OTHER -> FALSE

\* A parsed JSON document: an object (fields: key -> scalar) or an array.
JObject(fields) == [kind |-> "object", fields |-> fields]
JArray == [kind |-> "array", fields |-> <<>>]
NoData == [kind |-> "none", fields |-> <<>>]

\* dict.get(key, default)
DictGet(obj, key, default) ==
    IF key \in DOMAIN obj.fields THEN obj.fields[key] ELSE default

(* ------------------------------ file contents -------------------------- *)

\* The bytes of a file.  syntax: does json.load accept them; layout: how the
\* text is laid out; value: the document the text denotes.
FileText(layout, value) == [syntax |-> "json", layout |-> layout, value |-> value]
InvalidText == [syntax |-> "invalid", layout |-> "text", value |-> NoData]
Truncated(value) == [syntax |-> "invalid", layout |-> "indent2", value |-> value]
Absent == [syntax |-> "absent", layout |-> "none", value |-> NoData]

\* json.load(f): the document, or JSONDecodeError.
json_load(text) ==
    IF text.syntax = "json" THEN [exc |-> "none", value |-> text.value]
    ELSE [exc |-> "JSONDecodeError", value |-> NoData]

\* json.dump(data, f, indent=2) followed by f.write('\n').
json_dump(value) == FileText("indent2+newline", value)

(* ------------------------------ version engine ------------------------- *)

\* The positions of the dots of a string.
DotsOf(s) == {k \in 1..Len(s) : s[k] = "."}

AllDigits(s) == Len(s) > 0 /\ \A k \in 1..Len(s) : IsDigit(s[k])

\* re.match(r'^(\d+)\.(\d+)\.(\d+)$', version): Python's $ matches at the end
\* of the string and also just before one trailing newline.
SemverMatch(version) ==
    LET body == IF Len(version) > 0 /\ version[Len(version)] = "\n"
                THEN SubSeq(version, 1, Len(version) - 1)
                ELSE version
        dots == DotsOf(body)
    IN  IF Cardinality(dots) # 2 THEN [matched |-> FALSE, groups |-> <<>>]
        ELSE LET d1 == CHOOSE d \in dots : \A e \in dots : d <= e
                 d2 == CHOOSE d \in dots : \A e \in dots : e <= d
                 g1 == SubSeq(body, 1, d1 - 1)
                 g2 == SubSeq(body, d1 + 1, d2 - 1)
                 g3 == SubSeq(body, d2 + 1, Len(body))
             IN  IF AllDigits(g1) /\ AllDigits(g2) /\ AllDigits(g3)
                 THEN [matched |-> TRUE, groups |-> <<g1, g2, g3>>]
                 ELSE [matched |-> FALSE, groups |-> <<>>]

\* parse_version: the (major, minor, patch) tuple, ValueError when the string
\* does not match, TypeError when the value is not a string at all.
parse_version(version) ==
    IF version.t # "str"
    THEN [exc |-> "TypeError", tuple |-> <<>>]
    ELSE LET m == SemverMatch(version.s)
         IN  IF ~m.matched
             THEN [exc |-> "ValueError", tuple |-> <<>>]
             ELSE [exc |-> "none",
                   tuple |-> <<IntOf(m.groups[1]), IntOf(m.groups[2]), IntOf(m.groups[3])>>]

\* f"{major}.{minor}.{patch}"
FormatVersion(major, minor, patch) ==
    StrOf(major) \o <<".">> \o StrOf(minor) \o <<".">> \o StrOf(patch)

\* Variant of increment_version whose minor bump does not reset patch.
increment_version_noreset(version, level) ==
    LET p == parse_version(version)
    IN  IF p.exc # "none"
        THEN [exc |-> p.exc, err |-> "MalformedVersion", value |-> <<>>]
        ELSE LET major == p.tuple[1]
                 minor == p.tuple[2]
                 patch == p.tuple[3]
             IN  CASE level = "patch" ->
                        [exc |-> "none", err |-> "none",
                         value |-> FormatVersion(major, minor, patch + 1)]
                   [] level = "minor" ->
                        [exc |-> "none", err |-> "none",
                         value |-> FormatVersion(major, minor + 1, patch)]
                   [] level = "major" ->
                        [exc |-> "none", err |-> "none",
                         value |-> FormatVersion(major + 1, 0, 0)]
                   [] OTHER ->
                        [exc |-> "ValueError", err |-> "UnknownLevel", value |-> <<>>]

\* increment_version: parse first, then apply the rule of the level; an
\* unknown level raises ValueError after a successful parse.
increment_version(version, level) ==
    LET p == parse_version(version)
    IN  IF p.exc # "none"
        THEN [exc |-> p.exc, err |-> "MalformedVersion", value |-> <<>>]
        ELSE LET major == p.tuple[1]
                 minor == p.tuple[2]
                 patch == p.tuple[3]
             IN  CASE level = "patch" ->
                        [exc |-> "none", err |-> "none",
                         value |-> FormatVersion(major, minor, patch + 1)]
                   [] level = "minor" ->
                        [exc |-> "none", err |-> "none",
                         value |-> FormatVersion(major, minor + 1, 0)]
                   [] level = "major" ->
                        [exc |-> "none", err |-> "none",
                         value |-> FormatVersion(major + 1, 0, 0)]
                   [] OTHER ->
                        [exc |-> "ValueError", err |-> "UnknownLevel", value |-> <<>>]

(* ------------------------------ inputs --------------------------------- *)

Levels == {"patch", "minor", "major"}

\* Version strings that are not canonical MAJOR.MINOR.PATCH: "1.2", "invalid",
\* "1.2.3.4", "1..3", " 1.2.3", "1.2.x", "01.2.3" and "1.2.3\n".
OddVersions ==
    { <<"1", ".", "2">>,
      <<"i", "n", "v", "a", "l", "i", "d">>,
      <<"1", ".", "2", ".", "3", ".", "4">>,
      <<"1", ".", ".", "3">>,
      <<" ", "1", ".", "2", ".", "3">>,
      <<"1", ".", "2", ".", "x">>,
      <<"0", "1", ".", "2", ".", "3">>,
      <<"1", ".", "2", ".", "3", "\n">> }

CanonicalVersions ==
    {FormatVersion(a, b, c) : a \in 0..MaxNum, b \in 0..MaxNum, c \in 0..MaxNum}

\* What a manifest may hold under its "version" key.
VersionValues ==
    {JStr(s) : s \in CanonicalVersions \cup OddVersions}
        \cup {JStr(<<>>), JNum(0), JNum(1), JNull}

\* A manifest object with the given keys; "id" and the opaque "name" key
\* hold fixed strings, "version" holds v.
Manifest(keys, v) ==
    JObject([k \in keys |->
                CASE k = "version" -> v
                  [] k = "id" -> JStr(<<"t">>)
                  [] OTHER -> JStr(<<"x">>)])

\* Files handed to update_template_version directly.
UpdateFiles ==
    {InvalidText, FileText("compact", JArray),
     FileText("compact", Manifest({"id"}, JNull)),
     FileText("compact", Manifest({}, JNull))}
        \cup {FileText("compact", Manifest({"id", "version", "name"}, v)) :
                v \in VersionValues}
        \cup {FileText("compact", Manifest({"version"}, JStr(FormatVersion(a, 9, 9)))) :
                a \in 0..MaxNum}

\* Manifests found below a target in a batch run: invalid JSON, an object
\* without version, a malformed version and two valid manifests.
SampleFiles ==
    { InvalidText,
      FileText("compact", Manifest({"id"}, JNull)),
      FileText("compact", Manifest({"id", "version"}, JStr(<<"1", ".", "2">>))),
      FileText("compact", Manifest({"id", "version", "name"}, JStr(FormatVersion(1, 0, 0)))),
      FileText("indent2+newline", Manifest({"version", "name"}, JStr(FormatVersion(0, 9, 9)))) }

\* What the target path names: nothing, a manifest file, a file of another
\* name, or a directory with manifests below it (paths are numbered in
\* lexicographic order).
Targets ==
    { [kind |-> "missing", paths |-> {}],
      [kind |-> "otherfile", paths |-> {}],
      [kind |-> "file", paths |-> {1}] }
        \cup {[kind |-> "dir", paths |-> ps] : ps \in SUBSET (1..MaxTemplates)}

(* ------------------------------ state ---------------------------------- *)

VARIABLES
    target,        \* what the target path names
    disk,          \* manifest path -> bytes of the manifest
    disk0,         \* the manifests as they were when the run started
    tmp,           \* manifest path -> bytes of its sibling .tmp file
    argv,          \* command line of the version bumper
    level,         \* args.level
    dry_run,       \* args.dry_run
    commit,        \* args.commit
    pc,            \* position of bump_version.main
    templates,     \* list returned by find_templates
    i,             \* index of the loop over templates
    failed,        \* failure counter of main
    results,       \* what update_template_version returned, in call order
    exitCode,      \* exit code of the version bumper
    gitCalls,      \* version-control subprocesses started, in order
    commitRet,     \* what commit_changes returned: "none", "True" or "False"
    upc,           \* position of update_template_version
    cur,           \* template_file
    data,          \* parsed manifest
    new_version,   \* computed version string
    ret,           \* return value of update_template_version
    cause,         \* why it returned False
    ppc,           \* position of publish_templates.main
    pargs,         \* arguments of the publish entry point
    publishRun,    \* the publish subprocess: "none", or how its start ended
    pexit          \* exit code of the publish entry point

fsVars == <<target, disk, disk0, tmp>>
argVars == <<argv, level, dry_run, commit>>
mainVars == <<pc, templates, i, failed, results, exitCode, gitCalls, commitRet>>
updVars == <<upc, cur, data, new_version, ret, cause>>
pubVars == <<ppc, pargs, publishRun, pexit>>
vars == <<fsVars, argVars, mainVars, updVars, pubVars>>

(* ------------------------ update_template_version ---------------------- *)

\* return False / return True
Return(value, why) ==
    /\ upc' = "returned"
    /\ ret' = value
    /\ cause' = why

\* Lines 135-136: open and json.load the manifest.
U_Load ==
    /\ upc = "load"
    /\ LET r == json_load(disk[cur])
       IN  IF r.exc # "none"
           THEN /\ Return(FALSE, "InvalidJson")
                /\ UNCHANGED <<data, new_version>>
           ELSE /\ data' = r.value
                /\ upc' = "validate"
                /\ UNCHANGED <<ret, cause, new_version>>
    /\ UNCHANGED <<cur, fsVars, argVars, mainVars, pubVars>>

\* Lines 138-146: data.get("version"), data.get("id"), the version check.
\* data.get on a document that is not an object raises AttributeError.
U_Validate ==
    /\ upc = "validate"
    /\ IF data.kind # "object"
       THEN Return(FALSE, "AttributeError")
       ELSE IF ~Truthy(DictGet(data, "version", JNull))
            THEN Return(FALSE, "MissingVersion")
            ELSE /\ upc' = "compute"
                 /\ UNCHANGED <<ret, cause>>
    /\ UNCHANGED <<cur, data, new_version, fsVars, argVars, mainVars, pubVars>>

\* Variant of SkipsWrite that ignores the dry-run flag.
SkipsWrite_never == FALSE

\* Does the dry-run flag end the call before the write (line 160)?
SkipsWrite == dry_run

\* Lines 148-162: increment_version, the report, the dry-run return.
U_Compute ==
    /\ upc = "compute"
    /\ LET r == increment_version(DictGet(data, "version", JNull), level)
       IN  IF r.exc # "none"
           THEN /\ Return(FALSE, IF r.exc = "TypeError" THEN "TypeError" ELSE r.err)
                /\ UNCHANGED new_version
           ELSE /\ new_version' = r.value
                /\ IF SkipsWrite
                   THEN Return(TRUE, "none")
                   ELSE /\ upc' = "write"
                        /\ UNCHANGED <<ret, cause>>
    /\ UNCHANGED <<cur, data, fsVars, argVars, mainVars, pubVars>>

\* Variant of UpdatedData that writes an object holding the version only.
UpdatedData_versiononly(d, v) == JObject([k \in {"version"} |-> JStr(v)])

\* Line 165: data["version"] = new_version.
UpdatedData(d, v) == JObject([d.fields EXCEPT !["version"] = JStr(v)])

\* What the file system may do to a write of the temporary file.
WriteOutcomes == {"ok", "open_error", "write_error", "short_write"}

\* Variant of U_WriteTemp that dumps straight into the manifest, without a
\* temporary file.
U_WriteTemp_inplace ==
    /\ upc = "write"
    /\ data' = UpdatedData(data, new_version)
    /\ \E outcome \in WriteOutcomes :
          CASE outcome = "ok" ->
                 /\ disk' = [disk EXCEPT ![cur] = json_dump(data')]
                 /\ Return(TRUE, "none")
            [] outcome = "short_write" ->
                 /\ disk' = [disk EXCEPT ![cur] = Truncated(data')]
                 /\ Return(TRUE, "none")
            [] outcome = "write_error" ->
                 /\ disk' = [disk EXCEPT ![cur] = Truncated(data')]
                 /\ Return(FALSE, "WriteError")
            [] OTHER ->
                 /\ disk' = disk
                 /\ Return(FALSE, "WriteError")
    /\ UNCHANGED <<cur, new_version, target, tmp, disk0, argVars, mainVars, pubVars>>

\* Lines 165-170: data["version"] = new_version, then the dump to the sibling
\* temporary file.  The open or the write may raise; the bytes that reach the
\* file may be incomplete.
U_WriteTemp ==
    /\ upc = "write"
    /\ data' = UpdatedData(data, new_version)
    /\ \E outcome \in WriteOutcomes :
          CASE outcome = "ok" ->
                 /\ tmp' = [tmp EXCEPT ![cur] = json_dump(data')]
                 /\ upc' = "verify"
                 /\ UNCHANGED <<ret, cause>>
            [] outcome = "short_write" ->
                 /\ tmp' = [tmp EXCEPT ![cur] = Truncated(data')]
                 /\ upc' = "verify"
                 /\ UNCHANGED <<ret, cause>>
            [] outcome = "write_error" ->
                 /\ tmp' = [tmp EXCEPT ![cur] = Truncated(data')]
                 /\ Return(FALSE, "WriteError")
            [] OTHER ->
                 /\ tmp' = tmp
                 /\ Return(FALSE, "WriteError")
    /\ UNCHANGED <<cur, new_version, target, disk, disk0, argVars, mainVars, pubVars>>

\* Variant of U_Verify that goes on to the rename whatever json.load says.
U_Verify_unchecked ==
    /\ upc = "verify"
    /\ \E readable \in BOOLEAN :
          IF ~readable
          THEN Return(FALSE, "WriteError")
          ELSE /\ upc' = "replace"
               /\ UNCHANGED <<ret, cause>>
    /\ UNCHANGED <<cur, data, new_version, fsVars, argVars, mainVars, pubVars>>

\* Lines 172-174: re-open the temporary file and json.load it.
U_Verify ==
    /\ upc = "verify"
    /\ \E readable \in BOOLEAN :
          IF ~readable
          THEN Return(FALSE, "WriteError")
          ELSE IF json_load(tmp[cur]).exc # "none"
               THEN Return(FALSE, "TempInvalidJson")
               ELSE /\ upc' = "replace"
                    /\ UNCHANGED <<ret, cause>>
    /\ UNCHANGED <<cur, data, new_version, fsVars, argVars, mainVars, pubVars>>

\* Lines 176-179: temp_file.replace(template_file), an atomic rename that
\* may raise and then changes nothing.
U_Replace ==
    /\ upc = "replace"
    /\ \E renamed \in BOOLEAN :
          IF renamed
          THEN /\ disk' = [disk EXCEPT ![cur] = tmp[cur]]
               /\ tmp' = [tmp EXCEPT ![cur] = Absent]
               /\ Return(TRUE, "none")
          ELSE /\ UNCHANGED <<disk, tmp>>
               /\ Return(FALSE, "WriteError")
    /\ UNCHANGED <<cur, data, new_version, target, disk0, argVars, mainVars, pubVars>>

\* Lines 133-179: the process is killed during the call.  A kill during the
\* dump may leave a truncated temporary file; the rename is atomic, so a kill
\* during it leaves the manifest either renamed or untouched.
Crash ==
    /\ upc \in {"load", "validate", "compute", "write", "verify", "replace"}
    /\ upc' = "crashed"
    /\ \E effect \in {"none", "partial_tmp", "renamed"} :
          CASE effect = "partial_tmp" ->
                 /\ upc = "write"
                 /\ tmp' = [tmp EXCEPT ![cur] = Truncated(UpdatedData(data, new_version))]
                 /\ disk' = disk
            [] effect = "renamed" ->
                 /\ upc = "replace"
                 /\ disk' = [disk EXCEPT ![cur] = tmp[cur]]
                 /\ tmp' = [tmp EXCEPT ![cur] = Absent]
            [] OTHER ->
                 /\ disk' = disk
                 /\ tmp' = tmp
    /\ UNCHANGED <<cur, data, new_version, ret, cause, target, disk0,
                   argVars, mainVars, pubVars>>

UpdateStep ==
    \/ U_Load
    \/ U_Validate
    \/ U_Compute
    \/ U_WriteTemp
    \/ U_Verify
    \/ U_Replace

(* ------------------------------ bump_version.main ---------------------- *)

\* The value that follows option opt on a command line, or default.
OptionValue(cmd, opt, default) ==
    IF \E k \in 1..(Len(cmd) - 1) : cmd[k] = opt
    THEN cmd[(CHOOSE k \in 1..(Len(cmd) - 1) : cmd[k] = opt) + 1]
    ELSE default

HasFlag(cmd, flag) == \E k \in 1..Len(cmd) : cmd[k] = flag

\* Lines 301 and 263-289: parse_arguments on a command line whose --level,
\* when given, is one of the choices; --level defaults to patch, the two
\* flags are store_true.
ParseArguments ==
    /\ pc = "parse_args"
    /\ level' = OptionValue(argv, "--level", "patch")
    /\ dry_run' = HasFlag(argv, "--dry-run")
    /\ commit' = HasFlag(argv, "--commit")
    /\ pc' = "find"
    /\ UNCHANGED <<argv, templates, i, failed, results, exitCode, gitCalls,
                   commitRet, fsVars, updVars, pubVars>>

\* The elements of a set of path numbers in increasing order.
RECURSIVE SortedSeq(_)
SortedSeq(ps) ==
    IF ps = {} THEN <<>>
    ELSE LET least == CHOOSE p \in ps : \A q \in ps : p <= q
         IN  <<least>> \o SortedSeq(ps \ {least})

\* find_templates: the sorted list of manifests, or the exception raised.
find_templates(t) ==
    CASE t.kind = "missing" -> [exc |-> "FileNotFoundError", list |-> <<>>]
      [] t.kind = "file" -> [exc |-> "none", list |-> SortedSeq(t.paths)]
      [] t.kind = "dir" ->
            IF t.paths = {}
            THEN [exc |-> "ValueError", list |-> <<>>]
            ELSE [exc |-> "none", list |-> SortedSeq(t.paths)]
      [] OTHER -> [exc |-> "ValueError", list |-> <<>>]

\* Lines 310-321: find the templates; an exception ends main with 1.
FindTemplates ==
    /\ pc = "find"
    /\ LET r == find_templates(target)
       IN  IF r.exc # "none"
           THEN /\ exitCode' = 1
                /\ pc' = "exited"
                /\ UNCHANGED <<templates, i, failed>>
           ELSE /\ templates' = r.list
                /\ i' = 1
                /\ failed' = 0
                /\ pc' = "loop"
                /\ UNCHANGED exitCode
    /\ UNCHANGED <<results, gitCalls, commitRet, fsVars, argVars, updVars, pubVars>>

\* Variant of MoreTemplates that leaves the loop at the first failure.
MoreTemplates_untilfailure == i <= Len(templates) /\ failed = 0

\* Line 322: does the for loop have another template?
MoreTemplates == i <= Len(templates)

\* Lines 322-323: the next template of the loop is handed to
\* update_template_version; after the last one the loop ends.
LoopNext ==
    /\ pc = "loop"
    /\ upc = "idle"
    /\ IF MoreTemplates
       THEN /\ cur' = templates[i]
            /\ upc' = "load"
            /\ data' = NoData
            /\ new_version' = <<>>
            /\ cause' = "none"
            /\ UNCHANGED <<pc, ret>>
       ELSE /\ pc' = "commit_check"
            /\ UNCHANGED updVars
    /\ UNCHANGED <<templates, i, failed, results, exitCode, gitCalls, commitRet,
                   fsVars, argVars, pubVars>>

\* Lines 323-325: count a failed update and go on with the next template.
LoopCount ==
    /\ pc = "loop"
    /\ upc = "returned"
    /\ failed' = IF ret THEN failed ELSE failed + 1
    /\ results' = Append(results, [path |-> cur, ok |-> ret, cause |-> cause])
    /\ i' = i + 1
    /\ upc' = "idle"
    /\ UNCHANGED <<pc, templates, exitCode, gitCalls, commitRet, cur, data, new_version,
                   ret, cause, fsVars, argVars, pubVars>>

\* Variant of ShouldCommit that does not look at the failure counter.
ShouldCommit_ignoresfailures == commit /\ ~dry_run

\* Line 328: is the commit step entered?
ShouldCommit == commit /\ ~dry_run /\ failed = 0

\* Lines 327-329.
CommitCheck ==
    /\ pc = "commit_check"
    /\ pc' = IF ShouldCommit THEN "git_add" ELSE "summary"
    /\ UNCHANGED <<templates, i, failed, results, exitCode, gitCalls, commitRet,
                   fsVars, argVars, updVars, pubVars>>

\* Lines 208-213 and 226-232, 330-331: git add.  The tool may be missing
\* (no process is started) or exit non-zero; either makes commit_changes
\* return False, which main counts as one failure.
GitAdd ==
    /\ pc = "git_add"
    /\ \E outcome \in {"ok", "nonzero", "notfound"} :
          /\ gitCalls' = IF outcome = "notfound" THEN gitCalls
                         ELSE Append(gitCalls, "add")
          /\ IF outcome = "ok"
             THEN /\ pc' = "git_commit"
                  /\ UNCHANGED <<failed, commitRet>>
             ELSE /\ pc' = "summary"
                  /\ commitRet' = "False"
                  /\ failed' = failed + 1
    /\ UNCHANGED <<templates, i, results, exitCode, fsVars, argVars, updVars, pubVars>>

\* Lines 216-232, 330-331: git commit.
GitCommit ==
    /\ pc = "git_commit"
    /\ gitCalls' = Append(gitCalls, "commit")
    /\ \E outcome \in {"ok", "nonzero"} :
          /\ commitRet' = IF outcome = "ok" THEN "True" ELSE "False"
          /\ failed' = IF outcome = "ok" THEN failed ELSE failed + 1
    /\ pc' = "summary"
    /\ UNCHANGED <<templates, i, results, exitCode, fsVars, argVars, updVars, pubVars>>

\* Variant of SummaryCode with the two exit codes swapped.
SummaryCode_swapped == IF failed = 0 THEN 1 ELSE 0

\* Lines 335-340: the value main returns.
SummaryCode == IF failed = 0 THEN 0 ELSE 1

\* Lines 333-340 and 344: the summary and the exit code.
Summary ==
    /\ pc = "summary"
    /\ exitCode' = SummaryCode
    /\ pc' = "exited"
    /\ UNCHANGED <<templates, i, failed, results, gitCalls, commitRet,
                   fsVars, argVars, updVars, pubVars>>

BumpStep ==
    \/ ParseArguments
    \/ FindTemplates
    \/ LoopNext
    \/ LoopCount
    \/ CommitCheck
    \/ GitAdd
    \/ GitCommit
    \/ Summary

(* -------------------------- publish_templates.main --------------------- *)

\* Variant of bump_cmd that passes --commit whatever the mode.
bump_cmd_alwayscommit(a) ==
    <<"--level", a.level, "--target", "target">>
        \o (IF a.dry_run THEN <<"--dry-run", "--commit">> ELSE <<"--commit">>)

\* Lines 117-127: the command line of the bump child process.
bump_cmd(a) ==
    <<"--level", a.level, "--target", "target">>
        \o (IF a.dry_run THEN <<"--dry-run">> ELSE <<"--commit">>)

\* Lines 113-130: start the bump child when -u was given.
P_Start ==
    /\ ppc = "start"
    /\ IF pargs.update_version
       THEN /\ argv' = bump_cmd(pargs)
            /\ pc' = "parse_args"
            /\ ppc' = "wait_bump"
       ELSE /\ ppc' = "publish"
            /\ UNCHANGED <<argv, pc>>
    /\ UNCHANGED <<level, dry_run, commit, templates, i, failed, results,
                   exitCode, gitCalls, commitRet, pargs, publishRun, pexit,
                   fsVars, updVars>>

\* Variant of BumpFailed that never sees a failure of the child.
BumpFailed_ignored == FALSE

\* Lines 130-132: does the exit code of the bump child abort main?
BumpFailed == exitCode # 0

\* Lines 129-134: subprocess.run(check=True) returns when the child has
\* exited; CalledProcessError makes main return 1.
P_BumpExit ==
    /\ ppc = "wait_bump"
    /\ pc = "exited"
    /\ IF BumpFailed
       THEN /\ pexit' = 1
            /\ ppc' = "exited"
       ELSE /\ ppc' = "publish"
            /\ UNCHANGED pexit
    /\ UNCHANGED <<pargs, publishRun, fsVars, argVars, mainVars, updVars>>

\* Variant of PublishCode that does not treat a missing tool as a failure.
PublishCode_missingtool(outcome) == IF outcome = "nonzero" THEN 1 ELSE 0

\* Lines 151-155: the exit code after the publish subprocess.
PublishCode(outcome) == IF outcome = "ok" THEN 0 ELSE 1

\* Lines 136-164: the publish subprocess, or the dry-run message.
P_Publish ==
    /\ ppc = "publish"
    /\ IF ~pargs.dry_run
       THEN \E outcome \in {"ok", "nonzero", "notfound"} :
               /\ publishRun' = outcome
               /\ pexit' = PublishCode(outcome)
       ELSE /\ pexit' = 0
            /\ UNCHANGED publishRun
    /\ ppc' = "exited"
    /\ UNCHANGED <<pargs, fsVars, argVars, mainVars, updVars>>

PublishStep ==
    \/ P_Start
    \/ P_BumpExit
    \/ P_Publish

(* ------------------------------ specifications ------------------------- *)

\* The state shared by every entry point before anything ran.
InitCommon ==
    /\ disk0 = disk
    /\ tmp = [p \in DOMAIN disk |-> Absent]
    /\ templates = <<>>
    /\ i = 1
    /\ failed = 0
    /\ results = <<>>
    /\ exitCode = -1
    /\ gitCalls = <<>>
    /\ commitRet = "none"
    /\ data = NoData
    /\ new_version = <<>>
    /\ ret = FALSE
    /\ cause = "none"
    /\ publishRun = "none"
    /\ pexit = -1

\* A direct call update_template_version(template_file, level, dry_run).
InitUpdate ==
    /\ target = [kind |-> "file", paths |-> {1}]
    /\ \E f \in UpdateFiles : disk = [p \in {1} |-> f]
    /\ argv = <<>>
    /\ level \in Levels \cup {"bogus"}
    /\ dry_run \in BOOLEAN
    /\ commit = FALSE
    /\ pc = "direct"
    /\ upc = "load"
    /\ cur = 1
    /\ ppc = "none"
    /\ pargs = [update_version |-> FALSE, level |-> "patch", dry_run |-> FALSE]
    /\ InitCommon

SpecUpdate == InitUpdate /\ [][UpdateStep]_vars

\* A direct call during which the process may be killed at any step.
CrashNext == UpdateStep \/ Crash

SpecCrash == InitUpdate /\ [][CrashNext]_vars

\* Command lines of the version bumper.
BumpArgvs ==
    {lv \o dr \o cm :
        lv \in {<<>>, <<"--level", "minor">>, <<"--level", "major">>},
        dr \in {<<>>, <<"--dry-run">>},
        cm \in {<<>>, <<"--commit">>}}

\* The file system below the target.
InitFiles ==
    /\ target \in Targets
    /\ disk \in [target.paths -> SampleFiles]

\* A run of bump_version.py.
InitBump ==
    /\ InitFiles
    /\ argv \in BumpArgvs
    /\ level = "patch"
    /\ dry_run = FALSE
    /\ commit = FALSE
    /\ pc = "parse_args"
    /\ upc = "idle"
    /\ cur = 1
    /\ ppc = "none"
    /\ pargs = [update_version |-> FALSE, level |-> "patch", dry_run |-> FALSE]
    /\ InitCommon

\* A run of publish_templates.py.
InitPublish ==
    /\ InitFiles
    /\ argv = <<>>
    /\ level = "patch"
    /\ dry_run = FALSE
    /\ commit = FALSE
    /\ pc = "not_started"
    /\ upc = "idle"
    /\ cur = 1
    /\ ppc = "start"
    /\ pargs \in [update_version : BOOLEAN, level : Levels, dry_run : BOOLEAN]
    /\ InitCommon

Init == InitBump \/ InitPublish

Next == UpdateStep \/ BumpStep \/ PublishStep

Spec == Init /\ [][Next]_vars

(* ------------------------------ properties ----------------------------- *)

\* The version value of the manifest being updated, as it was at the start.
OldDoc == json_load(disk0[cur]).value
OldValue == DictGet(OldDoc, "version", JNull)

\* The manifest is a JSON object whose version is canonical MAJOR.MINOR.PATCH.
OldIsCanonical ==
    /\ OldDoc.kind = "object"
    /\ OldValue.t = "str"
    /\ OldValue.s \in CanonicalVersions

Triples == (0..MaxNum) \X (0..MaxNum) \X (0..MaxNum)

\* The numbers a canonical version string stands for.
TripleOf ==
    [s \in CanonicalVersions |->
        CHOOSE t \in Triples : FormatVersion(t[1], t[2], t[3]) = s]

\* The semantic-versioning rule of a bump level, on numbers.
Bumped(t, l) ==
    CASE l = "patch" -> <<t[1], t[2], t[3] + 1>>
      [] l = "minor" -> <<t[1], t[2] + 1, 0>>
      [] l = "major" -> <<t[1] + 1, 0, 0>>

NumDigits(n) == IF n < 10 THEN 1 ELSE IF n < 100 THEN 2 ELSE 3

\* s is the string "a.b.c" of the triple t with no leading zeros: it parses
\* to t and is no longer than the digits of t need.
IsCanonicalFor(s, t) ==
    /\ parse_version(JStr(s)) = [exc |-> "none", tuple |-> t]
    /\ Len(s) = NumDigits(t[1]) + NumDigits(t[2]) + NumDigits(t[3]) + 2

\* increment_version has been evaluated by the current call.
PastCompute == upc \in {"write", "verify", "replace", "returned"}
                  /\ cause \notin {"InvalidJson", "AttributeError", "MissingVersion"}

\* An exception of the file system, or bytes lost on the way to the file.
IOFaults == {"WriteError", "TempInvalidJson"}

\* C9: for every canonical version (M, m, p), increment_version gives
\* (M, m, p+1) for patch, (M, m+1, 0) for minor and (M+1, 0, 0) for major,
\* formatted as "MAJOR.MINOR.PATCH"; for any other level it fails with
\* UnknownLevel and yields no version.
C9_Increment ==
    (OldIsCanonical /\ PastCompute) =>
        IF level \in Levels
        THEN /\ cause \notin {"UnknownLevel", "MalformedVersion", "TypeError"}
             /\ new_version = LET t == Bumped(TripleOf[OldValue.s], level)
                              IN  FormatVersion(t[1], t[2], t[3])
             /\ IsCanonicalFor(new_version, Bumped(TripleOf[OldValue.s], level))
        ELSE /\ upc = "returned"
             /\ ~ret
             /\ cause = "UnknownLevel"
             /\ new_version = <<>>

\* "1.9.9" bumped by minor has become "1.10.0".
C9_Witness ==
    /\ OldValue = JStr(<<"1", ".", "9", ".", "9">>)
    /\ level = "minor"
    /\ new_version = <<"1", ".", "1", "0", ".", "0">>

C2_UpdateWritesNewVersion ==
    (upc = "returned" /\ OldIsCanonical /\ level \in Levels /\ ~dry_run) =>
        /\ cause \notin IOFaults => ret
        /\ ret =>
            LET new == json_load(disk[cur])
                t == Bumped(TripleOf[OldValue.s], level)
            IN  /\ new.exc = "none"
                /\ new.value.kind = "object"
                /\ DOMAIN new.value.fields = DOMAIN OldDoc.fields
                /\ \A k \in DOMAIN OldDoc.fields \ {"version"} :
                      new.value.fields[k] = OldDoc.fields[k]
                /\ new.value.fields["version"] = JStr(FormatVersion(t[1], t[2], t[3]))

\* {"id": "t", "version": "1.0.0", "name": "x"} bumped by patch is on disk
\* with version "1.0.1".
C2_Witness ==
    /\ upc = "returned"
    /\ ret
    /\ ~dry_run
    /\ level = "patch"
    /\ disk0[cur] = FileText("compact",
                             Manifest({"id", "version", "name"},
                                      JStr(<<"1", ".", "0", ".", "0">>)))
    /\ disk[cur] = FileText("indent2+newline",
                            Manifest({"id", "version", "name"},
                                     JStr(<<"1", ".", "0", ".", "1">>)))

\* C3: with dry_run = true the call never writes: at every point the
\* manifest holds its original bytes and no temporary file exists; for a
\* manifest with a canonical version and a level in {patch, minor, major}
\* the call returns True.
C3_DryRunWritesNothing ==
    dry_run =>
        /\ disk = disk0
        /\ \A p \in DOMAIN tmp : tmp[p] = Absent
        /\ (upc = "returned" /\ OldIsCanonical /\ level \in Levels) => ret

\* A dry run on version "1.0.0" computed "1.0.1" and returned True.
C3_Witness ==
    /\ dry_run
    /\ upc = "returned"
    /\ ret
    /\ OldValue = JStr(<<"1", ".", "0", ".", "0">>)
    /\ new_version = <<"1", ".", "0", ".", "1">>
    /\ disk = disk0

\* Every update of the batch so far returned True.
NoFileFailures == \A k \in 1..Len(results) : results[k].ok

\* The number of updates of the batch that returned False.
FileFailures == Cardinality({k \in 1..Len(results) : ~results[k].ok})

\* The target names a manifest file or a directory with manifests below it.
LocatorOk ==
    \/ target.kind = "file"
    \/ target.kind = "dir" /\ target.paths # {}

\* The loop over the templates is over.
BatchDone ==
    \/ pc \in {"commit_check", "git_add", "git_commit", "summary"}
    \/ pc = "exited" /\ LocatorOk

\* commit_changes has been entered.
CommitStepEntered ==
    gitCalls # <<>> \/ pc \in {"git_add", "git_commit"} \/ commitRet # "none"

\* C4: the commit step (git add, then git commit) is entered only if
\* --commit was given and --dry-run was not and every manifest of the batch
\* was updated without failure; in every other run no version-control
\* subprocess is started.
C4_CommitOnlyAfterCleanBatch ==
    /\ gitCalls \in {<<>>, <<"add">>, <<"add", "commit">>}
    /\ CommitStepEntered =>
          /\ HasFlag(argv, "--commit")
          /\ ~HasFlag(argv, "--dry-run")
          /\ Len(results) = Cardinality(target.paths)
          /\ LocatorOk
          /\ NoFileFailures

\* Two manifests were updated, then staged and committed.
C4_Witness ==
    /\ gitCalls = <<"add", "commit">>
    /\ commitRet = "True"
    /\ Len(results) = 2
    /\ NoFileFailures

\* C5 as stated: exit code 0 if and only if no per-file failure occurred
\* and, if --commit was given, the commit succeeded; exit code 1 otherwise.
C5_AsStated ==
    pc = "exited" =>
        /\ exitCode \in {0, 1}
        /\ exitCode = 0 <=>
              /\ NoFileFailures
              /\ HasFlag(argv, "--commit") => commitRet = "True"

\* C5: exit code 0 if and only if the Locator returned a list, no per-file
\* failure occurred and, if the commit step ran (--commit given and
\* --dry-run not), the commit succeeded; exit code 1 otherwise.
C5_ExitCode ==
    pc = "exited" =>
        /\ exitCode \in {0, 1}
        /\ exitCode = 0 <=>
              /\ LocatorOk
              /\ NoFileFailures
              /\ (HasFlag(argv, "--commit") /\ ~HasFlag(argv, "--dry-run"))
                    => commitRet = "True"

\* A dry run with --commit over two good manifests ended with 0 and no
\* commit.
C5_Witness ==
    /\ pc = "exited"
    /\ exitCode = 0
    /\ HasFlag(argv, "--commit")
    /\ HasFlag(argv, "--dry-run")
    /\ Len(results) = 2
    /\ commitRet = "none"

\* The manifest is a JSON object with a canonical version.
GoodManifest(f) ==
    /\ f.syntax = "json"
    /\ f.value.kind = "object"
    /\ DictGet(f.value, "version", JNull).t = "str"
    /\ DictGet(f.value, "version", JNull).s \in CanonicalVersions

\* C6: in a batch run every manifest of the list returned by the Locator is
\* processed exactly once, in list order, whatever happened to the ones
\* before it; a failed manifest does not keep a later good one from being
\* updated, and the failure count with which the batch ends is the number
\* of manifests whose update returned False.
C6_BatchIsolation ==
    /\ Len(results) <= Len(templates)
    /\ \A k \in 1..Len(results) : results[k].path = templates[k]
    /\ \A j, k \in 1..Len(templates) : j < k => templates[j] < templates[k]
    /\ pc = "loop" => i = Len(results) + 1
    /\ BatchDone => Len(results) = Cardinality(target.paths)
    /\ pc \in {"loop", "commit_check"} => failed = FileFailures
    /\ \A k \in 1..Len(results) :
          LET path == results[k].path
          IN  (GoodManifest(disk0[path]) /\ results[k].cause \notin IOFaults) =>
                 /\ results[k].ok
                 /\ ~dry_run =>
                       /\ disk[path].syntax = "json"
                       /\ disk[path].value.fields["version"]
                             # disk0[path].value.fields["version"]

\* The first manifest failed, the second was updated on disk all the same,
\* and the batch ended with one failure.
C6_Witness ==
    /\ pc = "commit_check"
    /\ Len(results) = 2
    /\ ~results[1].ok
    /\ results[2].ok
    /\ ~dry_run
    /\ disk[templates[2]] # disk0[templates[2]]
    /\ failed = 1

\* The bump child of the publish entry point ended with a non-zero code.
BumpChildFailed == pargs.update_version /\ pc = "exited" /\ exitCode # 0

\* C7: with the bump requested, a bump child that exits non-zero makes the
\* publish entry point fail at once without starting the publish
\* subprocess; whenever the publish step is reached or the publish
\* subprocess has been started, the child has exited with code 0.
C7_NoPublishAfterFailedBump ==
    (ppc # "none" /\ pargs.update_version) =>
        /\ (ppc = "publish" \/ publishRun # "none") => (pc = "exited" /\ exitCode = 0)
        /\ (ppc = "exited" /\ BumpChildFailed) => (pexit = 1 /\ publishRun = "none")
        /\ ppc = "exited" => pc = "exited"

\* A real (not dry) publish run whose bump child failed ended with 1 and
\* published nothing.
C7_Witness ==
    /\ ppc = "exited"
    /\ pargs.update_version
    /\ ~pargs.dry_run
    /\ exitCode = 1
    /\ pexit = 1
    /\ publishRun = "none"

\* C8 as stated: exit code 0 on success or on a dry run, exit code 1 if the
\* bump subprocess or the publish subprocess fails or the publish tool is
\* not installed.
C8_AsStated ==
    ppc = "exited" =>
        /\ pargs.dry_run => pexit = 0
        /\ (~BumpChildFailed /\ publishRun = "ok") => pexit = 0
        /\ (BumpChildFailed \/ publishRun \in {"nonzero", "notfound"}) => pexit = 1

\* C8: exit code 1 if the bump subprocess fails (on a dry run too), if the
\* publish subprocess fails or if the publish tool is not installed;
\* otherwise, on success and on a dry run whose bump step did not fail,
\* exit code 0.
C8_ExitCode ==
    ppc = "exited" =>
        /\ (BumpChildFailed \/ publishRun \in {"nonzero", "notfound"}) => pexit = 1
        /\ (~BumpChildFailed /\ publishRun = "ok") => pexit = 0
        /\ (~BumpChildFailed /\ pargs.dry_run) => pexit = 0
        /\ pexit \in {0, 1}
        /\ (~BumpChildFailed /\ ~pargs.dry_run) => publishRun # "none"

\* A dry run whose bump child failed ended with 1.
C8_Witness ==
    /\ ppc = "exited"
    /\ pargs.dry_run
    /\ BumpChildFailed
    /\ pexit = 1

\* C10: in a dry run of the publish entry point the publish subprocess is
\* never started, the bump child (if requested) is started with --dry-run
\* and without --commit, and over the whole run no manifest changes, no
\* temporary file appears, no version-control subprocess is started; in a
\* run that is not a dry run the bump child is started with --commit and
\* without --dry-run.
C10_DryRunHasNoEffects ==
    ppc # "none" =>
        /\ pargs.dry_run =>
              /\ publishRun = "none"
              /\ disk = disk0
              /\ \A p \in DOMAIN tmp : tmp[p] = Absent
              /\ gitCalls = <<>>
              /\ commitRet = "none"
              /\ pc # "not_started" =>
                    (HasFlag(argv, "--dry-run") /\ ~HasFlag(argv, "--commit"))
        /\ (~pargs.dry_run /\ pc # "not_started") =>
              (HasFlag(argv, "--commit") /\ ~HasFlag(argv, "--dry-run"))
        /\ pc # "not_started" => pargs.update_version

\* A dry run with the bump requested went over two good manifests and
\* ended with 0.
C10_Witness ==
    /\ ppc = "exited"
    /\ pargs.dry_run
    /\ pargs.update_version
    /\ pexit = 0
    /\ Len(results) = 2
    /\ NoFileFailures

\* The complete new content: the original object with the computed version,
\* as json.dump lays it out.
CompleteNew ==
    FileText("indent2+newline",
             JObject([OldDoc.fields EXCEPT !["version"] = JStr(new_version)]))

\* The manifest holds its complete original or its complete new content.
OriginalOrNew == disk[cur] = disk0[cur] \/ disk[cur] = CompleteNew

\* C11: a non-dry-run update goes write temporary file, re-parse temporary
\* file, rename; the re-parse is entered only from the write, the rename only
\* after a re-parse that accepted the temporary file, the rename is the only
\* step that changes the manifest (by putting the re-parsed temporary file
\* in its place), and after every step, a failure or a kill of the process
\* included, the manifest holds its complete original or its complete new
\* content, never a partial write.
C11_AtomicReplace ==
    [][ /\ (upc' = "verify" /\ upc # "verify") => (upc = "write" /\ ~dry_run)
        /\ (upc' = "replace" /\ upc # "replace") =>
              (upc = "verify" /\ json_load(tmp[cur]).exc = "none" /\ tmp' = tmp)
        /\ tmp' # tmp => upc \in {"write", "replace"}
        /\ disk' # disk =>
              /\ upc = "replace"
              /\ json_load(tmp[cur]).exc = "none"
              /\ disk' = [disk EXCEPT ![cur] = tmp[cur]]
        /\ OriginalOrNew'
        /\ disk'[cur].syntax = "json" \/ disk'[cur] = disk0[cur] ]_vars

\* The process was killed during the dump of a good manifest: a truncated
\* temporary file is left and the manifest holds its original bytes.
C11_Witness ==
    /\ upc = "crashed"
    /\ ~dry_run
    /\ OldIsCanonical
    /\ tmp[cur].syntax = "invalid"
    /\ disk = disk0

====
